---- MODULE Spec2Model ----
(***************************************************************************)
(* The global per-kernel cache cell of geobacter's runtime core            *)
(* (src/libgeobacter/context.rs): ModuleContextData, an AtomicUsize that   *)
(* is either 0 or the raw pointer of an Arc<ModuleData>, together with     *)
(* the reference counts of the ModuleData objects and the lifetime of the  *)
(* Contexts they were created against.  Every access of the atomic word,   *)
(* every allocation and every change of a strong count is one step, so     *)
(* that all interleavings of upgrade, drop and get_cache_data by several   *)
(* threads are explored.  Further specifications over the same state      *)
(* cover ModuleData's table of compiled modules (get, compile), the        *)
(* Context's accelerator id counter and registry of codegen drivers, the   *)
(* lazily loaded metadata, and the identity of Context handles.            *)
(***************************************************************************)
EXTENDS Integers, FiniteSets, Sequences, TLC

\* Calls the threads may start, all together.
MaxCalls == 3

\* The threads that share the cell, and the Contexts the program creates.
Threads == {"t1", "t2"}
Contexts == {"A", "B"}

\* ModuleData objects are numbered in allocation order; every call allocates
\* at most one, so this many ids are enough (the deeper specification starts
\* one call more, and may start with one object allocated).
\* The width of usize in bits, and its largest value.
UsizeBits == 3
usize_max == 2^UsizeBits - 1
\* Calls of take_accel_id: enough for the counter to come round once.
MaxIdCalls == 2^UsizeBits + 1

MaxMD == MaxCalls + 1
Objs == 1..MaxMD
\* Heap addresses: an address is free for reuse once its object is freed.
Addrs == 1..MaxMD
\* The AcceleratorIds of the accelerators that compile kernels, and the
\* platform module a compilation yields for each.
AccelIds == {0}
\* The slots of a ModuleData's table that get and compile are followed on.
SlotIds == {0, 1}
ModuleOf(a) == a + 1

VARIABLES
    cell,       \* ModuleContextData.0: 0 or the address of the held ModuleData
    ctxState,   \* per Context: "new" (not created), "live", "dead" (all strong handles dropped)
    allocated,  \* number of ModuleData objects allocated so far
    addr,       \* per object: its heap address
    ctxt,       \* per object: ModuleData.ctxt, the Context it was created against
    strong,     \* per object: the Arc's strong count (0: deallocated)
    frees,      \* per object: how many times it was deallocated
    entries,    \* per object and AcceleratorId: ModuleData.entries, 0 (None) or a module
    uaf,        \* a thread has rebuilt an Arc from the address of a freed ModuleData
    pc,         \* per thread: position in the current call
    op,         \* per thread: the call in progress, or the last one completed
    arg,        \* per thread: the &Context argument of that call
    site,       \* per thread: which upgrade call of get_cache_data runs (0: a direct call)
    ptr_usize,  \* per thread: the word loaded from the cell
    arc,        \* per thread: the object behind ptr_usize (at the load, then of the clone)
    data,       \* per thread: get_cache_data's new ModuleData (0: none)
    actual,     \* per thread: actual_data_usize, the word the failed exchange saw
    ret,        \* per thread: last result: -1 unit or none yet, 0 None/false, n Some(n)/true
    held,       \* per thread and object: the Arc<ModuleData> handles the caller holds
    calls,      \* per thread: calls started
    limit,      \* calls the threads may start, all together
    \* ModuleData::get and ModuleData::compile on the ModuleData numbered 1
    elock,      \* ModuleData.entries' RwLock: <<mode, owner>>, mode "free", "upgradable" or "write"
    moduleTy,   \* per platform module (numbered as loaded): the device type that loaded it
    cpc,        \* per thread: position in the current get or compile call
    cop,        \* per thread: "get" or "compile", the call in progress or the last one
    cdev,       \* per thread: the device type D of that call
    cacc,       \* per thread: the AcceleratorId of that call
    readers,    \* read guards of ModuleData.entries currently held
    cseen,      \* per thread holding a read guard: the mode the lock was in when it was granted
    cexpect,    \* per thread: expect_platform_ty of that call
    cret,       \* per thread: last result: -1 none yet, 0 None, m Some(m)/Ok(m), -2 Err
    ccalls,     \* get and compile calls started
    codegens,   \* invocations of codegen.codegen(desc)
    loads,      \* invocations of D::load_kernel
    cfails,     \* failures of either
    cdevs,      \* the <<AcceleratorId, device type>> pairs compile has been called with
    warns,      \* warnings logged by get (line 349)
    \* Context::take_accel_id on one Context
    next_accel_id,  \* ContextData.next_accel_id
    fetched,        \* per counter value: the calls that fetched it and have not checked it yet
    taken,          \* the AcceleratorIds returned, in the order of the returns
    idPanics,       \* calls that panicked ("too many accelerators")
    idCalls,        \* calls started
    \* Context::initialize_accel on one Context
    translators,    \* ContextDataMut.translators: per target desc, 0 (vacant) or the driver its Weak names
    accelerators,   \* ContextDataMut.accelerators: the table, slot i + 1 for AcceleratorId i
    mlock,          \* ContextData.m's write lock: the thread that holds it, or "none"
    rpc,            \* per thread: "idle", "write" (about to take the lock) or "locked"
    racc,           \* per thread: the accelerator of its current or last call
    rret,           \* per thread: last result: "none", "Ok" or "Err"
    accCg,          \* per accelerator: the driver initialize_accel gave it (0: none)
    cgHeld,         \* per accelerator: it still holds a strong reference to that driver
    called,         \* the accelerators initialize_accel has been called for
    creates,        \* invocations of create_target_codegen
    drivers,        \* drivers created (numbered as created)
    regOk,          \* the accelerators whose initialize_accel returned Ok
    qop,            \* the last query: "none", "find" or "filter"
    qpred,          \* its predicate, as the set of the accelerators that satisfy it
    qret,           \* its result: the accelerators returned, in order (find: at most one)
    \* Context::load_metadata on one Context
    metadata,       \* AsyncCodegenMetadataLoader.0's content: 0 (None) or the metadata loaded
    metaWriter,     \* the thread that holds its write lock, or "none"
    metaGuards,     \* per thread: the read guards it holds (the results of its calls)
    mpc,            \* per thread: "idle", "write" (about to take the write lock) or "locked"
    mret,           \* per thread: last result: -1 none yet, m Ok(guard of m), -2 Err
    mstarted,       \* calls started
    mloads,         \* invocations of context_metadata()
    msucc,          \* those that succeeded (metadata is numbered by them)
    mfails,         \* those that failed
    \* Context handles: Context(Arc<ContextData>) and WeakContext(Weak<ContextData>)
    hInst,          \* per strong handle: the ContextData instance it refers to (0: no handle)
    wInst,          \* per weak handle: the instance it was downgraded from (0: no handle)
    cAddr,          \* per instance: the address of its allocation
    cNext,          \* per instance: its content (next_accel_id)
    cInsts,         \* instances created (numbered as created)
    newCalls,       \* calls of Context::new
    lastEq,         \* the last comparison: <<instance of lhs, instance of rhs, result>>
    lastNone        \* the last upgrade of the WeakContext held returned None

cellVars == <<cell, ctxState, allocated, addr, ctxt, strong, frees, entries, uaf, pc, op, arg,
              site, ptr_usize, arc, data, actual, ret, held, calls, limit>>
compileVars == <<elock, moduleTy, cpc, cop, cdev, cacc, readers, cseen, cexpect, cret, ccalls,
                 codegens, loads, cfails, cdevs, warns>>
idVars == <<next_accel_id, fetched, taken, idPanics, idCalls>>
registryVars == <<translators, accelerators, mlock, rpc, racc, rret, accCg, cgHeld, called,
                  creates, drivers, regOk, qop, qpred, qret>>
metaVars == <<metadata, metaWriter, metaGuards, mpc, mret, mstarted, mloads, msucc, mfails>>
handleVars == <<hInst, wInst, cAddr, cNext, cInsts, newCalls, lastEq, lastNone>>
\* What the cell's operations leave alone.
extVars == <<compileVars, idVars, registryVars, metaVars, handleVars>>

vars == <<cellVars, extVars>>

queryVars == <<regOk, qop, qpred, qret>>

heapVars == <<allocated, addr, ctxt, strong, frees>>
localVars == <<site, ptr_usize, arc, data, actual>>
callVars == <<op, arg, calls, limit>>

----------------------------------------------------------------------------
\* Helpers over the heap.

IsAllocated(o) == o \in 1..allocated
IsLive(o) == IsAllocated(o) /\ strong[o] > 0

\* The live object at address a, or 0.
Occupant(a) ==
    IF \E o \in Objs : IsLive(o) /\ addr[o] = a
    THEN CHOOSE o \in Objs : IsLive(o) /\ addr[o] = a
    ELSE 0

UsedAddrs == {addr[o] : o \in 1..allocated}
FreeUsedAddrs == {a \in UsedAddrs : Occupant(a) = 0}
FreshAddrs == Addrs \ UsedAddrs
\* The allocator may hand out any address that holds no live object.  Addresses
\* never used are interchangeable, so only the lowest of them is offered.
AllocAddrs ==
    FreeUsedAddrs \cup
    (IF FreshAddrs = {} THEN {}
     ELSE {CHOOSE a \in FreshAddrs : \A b \in FreshAddrs : a <= b})

\* A drop that deallocates o whatever its count.
ArcDropStrong_Free(s, o) == [s EXCEPT ![o] = 0]

\* A clone that takes no unit.
ArcClone_None(s, o) == s

\* Arc::clone: the strong counts after one more unit of o is taken.
ArcClone(s, o) == [s EXCEPT ![o] = @ + 1]

\* Arc::drop: the strong counts and free counts after one unit of o is dropped.
ArcDropStrong(s, o) == [s EXCEPT ![o] = @ - 1]
ArcDropFrees(s, f, o) == IF s[o] = 1 THEN [f EXCEPT ![o] = @ + 1] ELSE f

Idle(t) == pc[t] = "idle"
Crashed == \E t \in Threads : pc[t] = "crashed"
\* Thread t is at position p of its call; a crash has ended the process.
At(t, p) == ~Crashed /\ pc[t] = p

----------------------------------------------------------------------------
\* The device types of the accelerators.
DevTys == {"D1", "D2"}

InitCompile ==
    /\ elock = <<"free", "none">>
    /\ moduleTy = <<>>
    /\ cpc = [t \in Threads |-> "idle"]
    /\ cop = [t \in Threads |-> "none"]
    /\ cdev = [t \in Threads |-> "D1"]
    /\ cacc = [t \in Threads |-> 0]
    /\ readers = 0
    /\ cseen = [t \in Threads |-> "none"]
    /\ cexpect = [t \in Threads |-> FALSE]
    /\ cret = [t \in Threads |-> -1]
    /\ ccalls = 0
    /\ codegens = 0
    /\ loads = 0
    /\ cfails = 0
    /\ cdevs = {}
    /\ warns = 0

\* Context::new, line 132: next_accel_id: AtomicUsize::new(0)
InitIds ==
    /\ next_accel_id = 0
    /\ fetched = [i \in 0..usize_max |-> 0]
    /\ taken = <<>>
    /\ idPanics = 0
    /\ idCalls = 0

\* The accelerators the program registers and their target descriptions:
\* two accelerators have equal ones.
Accels == {"a1", "a2", "a3"}
Descs == {"x", "y"}
TargetOf(a) == IF a = "a3" THEN "y" ELSE "x"
\* accel.id(): the AcceleratorId the accelerator was constructed with.
IdOf(a) == CASE a = "a1" -> 0 [] a = "a2" -> 1 [] a = "a3" -> 2

\* Context::new, lines 121-134: no accelerators, no translators
InitRegistry ==
    /\ translators = [d \in Descs |-> 0]
    /\ accelerators = <<>>
    /\ mlock = "none"
    /\ rpc = [t \in Threads |-> "idle"]
    /\ racc = [t \in Threads |-> "a1"]
    /\ rret = [t \in Threads |-> "none"]
    /\ accCg = [a \in Accels |-> 0]
    /\ cgHeld = [a \in Accels |-> FALSE]
    /\ called = {}
    /\ creates = 0
    /\ drivers = 0
    /\ regOk = {}
    /\ qop = "none"
    /\ qpred = {}
    /\ qret = <<>>

\* Context::new, line 130: metadata: AsyncCodegenMetadataLoader::default()
InitMeta ==
    /\ metadata = 0
    /\ metaWriter = "none"
    /\ metaGuards = [t \in Threads |-> 0]
    /\ mpc = [t \in Threads |-> "idle"]
    /\ mret = [t \in Threads |-> -1]
    /\ mstarted = 0
    /\ mloads = 0
    /\ msucc = 0
    /\ mfails = 0

\* The variables that hold Context and WeakContext handles (a WeakContext
\* is held by a caller or is the ctxt field of a ModuleData), the
\* ContextData instances (at most one per call of Context::new) and the
\* addresses of their allocations.
Hs == {"h1", "h2", "h3"}
Ws == {"w1"}
Insts == 1..MaxCalls
CAddrs == 1..MaxCalls

InitHandles ==
    /\ hInst = [h \in Hs |-> 0]
    /\ wInst = [w \in Ws |-> 0]
    /\ cAddr = [i \in Insts |-> 0]
    /\ cNext = [i \in Insts |-> 0]
    /\ cInsts = 0
    /\ newCalls = 0
    /\ lastEq = <<0, 0, TRUE>>
    /\ lastNone = FALSE

InitExt ==
    /\ InitCompile
    /\ InitIds
    /\ InitRegistry
    /\ InitMeta
    /\ InitHandles

Init ==
    /\ cell = 0
    /\ ctxState = [c \in Contexts |-> "new"]
    /\ allocated = 0
    /\ addr = [o \in Objs |-> 0]
    /\ ctxt = [o \in Objs |-> "A"]
    /\ strong = [o \in Objs |-> 0]
    /\ frees = [o \in Objs |-> 0]
    /\ entries = [o \in Objs |-> [a \in SlotIds |-> 0]]
    /\ uaf = FALSE
    /\ pc = [t \in Threads |-> "idle"]
    /\ op = [t \in Threads |-> "none"]
    /\ arg = [t \in Threads |-> "A"]
    /\ site = [t \in Threads |-> 0]
    /\ ptr_usize = [t \in Threads |-> 0]
    /\ arc = [t \in Threads |-> 0]
    /\ data = [t \in Threads |-> 0]
    /\ actual = [t \in Threads |-> 0]
    /\ ret = [t \in Threads |-> -1]
    /\ held = [t \in Threads |-> [o \in Objs |-> 0]]
    /\ calls = [t \in Threads |-> 0]
    /\ limit = MaxCalls
    /\ InitExt

----------------------------------------------------------------------------
\* Contexts.  The program owns the strong handles; a call borrows one
\* (&Context), so a Context cannot be destroyed while a call that was given
\* it is running.

\* Thread t is inside a call that was given &Context c.
Borrows(t, c) ==
    /\ pc[t] \notin {"idle", "panicked"}
    /\ op[t] \in {"upgrade", "get_cache_data"}
    /\ arg[t] = c

\* Context::new
NewContext(c) ==
    /\ ~Crashed
    /\ ctxState[c] = "new"
    /\ ctxState' = [ctxState EXCEPT ![c] = "live"]
    /\ UNCHANGED <<cell, heapVars, entries, uaf, pc, callVars, localVars, ret, held>>
    /\ UNCHANGED extVars

\* The last strong handle of Context c is dropped.
DropContext(c) ==
    /\ ~Crashed
    /\ ctxState[c] = "live"
    /\ \A t \in Threads : ~Borrows(t, c)
    /\ ctxState' = [ctxState EXCEPT ![c] = "dead"]
    /\ UNCHANGED <<cell, heapVars, entries, uaf, pc, callVars, localVars, ret, held>>
    /\ UNCHANGED extVars

\* WeakContext::upgrade: Some iff a strong handle still exists.
WeakUpgrade(c) == ctxState[c] = "live"

----------------------------------------------------------------------------
\* Calls.  A thread starts a call when it is idle.  While a call runs, ret
\* is -1; op and ret record the last call after it returned.

RECURSIVE SumCalls(_)
SumCalls(S) ==
    IF S = {} THEN 0
    ELSE LET t == CHOOSE u \in S : TRUE IN calls[t] + SumCalls(S \ {t})
TotalCalls == SumCalls(Threads)

Begin(t, name, c) ==
    /\ ~Crashed
    /\ Idle(t)
    /\ TotalCalls < limit
    /\ UNCHANGED limit
    /\ calls' = [calls EXCEPT ![t] = @ + 1]
    /\ op' = [op EXCEPT ![t] = name]
    /\ arg' = [arg EXCEPT ![t] = c]

\* The thread goes on to position p of its call.
Goto(t, p) ==
    /\ pc' = [pc EXCEPT ![t] = p]
    /\ ret' = [ret EXCEPT ![t] = -1]

\* The call returns r; h are the handles the caller holds afterwards.
Return(t, r, h) ==
    /\ pc' = [pc EXCEPT ![t] = "idle"]
    /\ ret' = [ret EXCEPT ![t] = r]
    /\ held' = [held EXCEPT ![t] = h]
    /\ site' = [site EXCEPT ![t] = 0]
    /\ ptr_usize' = [ptr_usize EXCEPT ![t] = 0]
    /\ arc' = [arc EXCEPT ![t] = 0]
    /\ data' = [data EXCEPT ![t] = 0]
    /\ actual' = [actual EXCEPT ![t] = 0]

\* The thread panics: the call never returns and the thread is gone.
Panic(t) ==
    /\ Goto(t, "panicked")
    /\ site' = [site EXCEPT ![t] = 0]
    /\ ptr_usize' = [ptr_usize EXCEPT ![t] = 0]
    /\ arc' = [arc EXCEPT ![t] = 0]
    /\ data' = [data EXCEPT ![t] = 0]
    /\ actual' = [actual EXCEPT ![t] = 0]
    /\ UNCHANGED held

\* The caller receives Some(o) and keeps the handle.
ReturnSome(t, o) == Return(t, o, [held[t] EXCEPT ![o] = @ + 1])

----------------------------------------------------------------------------
\* ModuleContextData::upgrade, lines 406-424.  get_cache_data calls it at
\* three places (site 1: line 454, site 2: line 473, site 3: line 499);
\* site 0 is a call of upgrade itself.

\* The check without the early return of line 418.
upgrade_check_NoStale(o, context) ==
    IF ctxt[o] = context THEN "Some" ELSE "Panic"

\* line 417-421: the recorded Context is gone (None), is the supplied one
\* (Some), or is another live Context (the assertion fails).
upgrade_check(o, context) ==
    IF ~WeakUpgrade(ctxt[o]) THEN "None"
    ELSE IF ctxt[o] = context THEN "Some"
    ELSE "Panic"

\* What follows the result res (about object o) of the upgrade call at site
\* k, the strong and free counts being s and f once upgrade's own Arc is
\* accounted for.  Leaves uaf and the call's op, arg and calls to the action.
UpgradeDone(t, k, res, o, s, f) ==
    LET d == data[t]
        \* every unit of the new ModuleData this call still owns is dropped
        sGone == IF d = 0 THEN s ELSE [s EXCEPT ![d] = 0]
        fGone == IF d = 0 THEN f ELSE [f EXCEPT ![d] = @ + 1]
    IN
    /\ UNCHANGED <<cell, ctxState, allocated, addr, ctxt, entries>>
    /\ CASE res = "Some" ->
            \* line 423; lines 476-477 and 503 then drop the new ModuleData
            /\ strong' = sGone
            /\ frees' = fGone
            /\ ReturnSome(t, o)
         [] res = "None" /\ k = 0 ->
            \* lines 408, 418
            /\ strong' = s
            /\ frees' = f
            /\ Return(t, 0, held[t])
         [] res = "None" /\ k \in {1, 2} ->
            \* line 455: build a new ModuleData; line 478: the data is old
            /\ strong' = s
            /\ frees' = f
            /\ Goto(t, IF k = 1 THEN "alloc" ELSE "cas2")
            /\ site' = [site EXCEPT ![t] = k]
            /\ ptr_usize' = [ptr_usize EXCEPT ![t] = 0]
            /\ arc' = [arc EXCEPT ![t] = 0]
            /\ UNCHANGED <<data, actual, held>>
         [] res = "None" /\ k = 3 ->
            \* line 500: expect() panics; unwinding drops `data`
            /\ strong' = sGone
            /\ frees' = fGone
            /\ Panic(t)
         [] res = "Panic" ->
            \* line 420: the assertion fails.  Unwinding drops `data`, one unit;
            \* at line 473 the unit behind data_ptr is still outstanding.
            /\ strong' = (IF k = 2 THEN [s EXCEPT ![d] = @ - 1] ELSE sGone)
            /\ frees' = (IF k = 2 THEN f ELSE fGone)
            /\ Panic(t)

\* lines 407-409: let ptr_usize = self.0.load(Acquire); if 0, return None
Load(t, k) ==
    IF cell = 0
    THEN UpgradeDone(t, k, "None", 0, strong, frees)
    ELSE /\ ptr_usize' = [ptr_usize EXCEPT ![t] = cell]
         /\ arc' = [arc EXCEPT ![t] = Occupant(cell)]
         /\ site' = [site EXCEPT ![t] = k]
         /\ Goto(t, "clone")
         /\ UNCHANGED <<cell, ctxState, heapVars, entries, data, actual, held>>

\* pub fn upgrade(&self, context: &Context), up to the load
upgrade(t, c) ==
    /\ ctxState[c] = "live"
    /\ Begin(t, "upgrade", c)
    /\ Load(t, 0)
    /\ UNCHANGED uaf
    /\ UNCHANGED extVars

\* The calls of upgrade at lines 473 and 499, up to the load
UpgradeLoad(t) ==
    /\ At(t, "load")
    /\ Load(t, site[t])
    /\ UNCHANGED <<uaf, callVars>>
    /\ UNCHANGED extVars

\* What a clone of an Arc rebuilt from the address of deallocated memory can
\* do: the process dies, the garbage reads as a dead Context, or it reads as
\* the supplied Context and the dangling Arc is returned.
UafOutcomes == {"crash", "None", "Some"}

\* lines 411-414: Arc::from_raw(ptr), clone, into_raw: one more strong unit
\* on whatever lives at ptr now.
UpgradeClone(t) ==
    /\ At(t, "clone")
    /\ LET o == Occupant(ptr_usize[t]) IN
       IF o # 0
       THEN /\ strong' = ArcClone(strong, o)
            /\ arc' = [arc EXCEPT ![t] = o]
            /\ uaf' = (uaf \/ o # arc[t])
            /\ Goto(t, "check")
            /\ UNCHANGED <<cell, ctxState, allocated, addr, ctxt, frees, entries, site,
                           ptr_usize, data, actual, held>>
       ELSE /\ uaf' = TRUE
            /\ \E out \in UafOutcomes :
                 IF out = "crash"
                 THEN /\ Goto(t, "crashed")
                      /\ UNCHANGED <<cell, ctxState, heapVars, entries, localVars, held>>
                 ELSE UpgradeDone(t, site[t], out, arc[t], strong, frees)
    /\ UNCHANGED callVars
    /\ UNCHANGED extVars

\* lines 416-423: the Context check on the cloned Arc; the Arc is dropped
\* unless it is returned.
UpgradeCheck(t) ==
    /\ At(t, "check")
    /\ LET o == arc[t]
           res == upgrade_check(o, arg[t])
       IN IF res = "Some"
          THEN UpgradeDone(t, site[t], res, o, strong, frees)
          ELSE UpgradeDone(t, site[t], res, o, ArcDropStrong(strong, o),
                           ArcDropFrees(strong, frees, o))
    /\ UNCHANGED <<uaf, callVars>>
    /\ UNCHANGED extVars

----------------------------------------------------------------------------
\* ModuleContextData::drop, lines 428-440.

\* pub fn drop(&self), lines 429-430: the load
drop(t) ==
    /\ Begin(t, "drop", arg[t])
    /\ IF cell = 0
       THEN Return(t, -1, held[t])
       ELSE /\ ptr_usize' = [ptr_usize EXCEPT ![t] = cell]
            /\ Goto(t, "drop_cas")
            /\ UNCHANGED <<site, arc, data, actual, held>>
    /\ UNCHANGED <<cell, ctxState, heapVars, entries, uaf>>
    /\ UNCHANGED extVars

\* An exchange that leaves the cell as it is.
DropExchangeKeep(cur, ptr) == cur

\* lines 432-435: the cell after compare_exchange(ptr_usize, 0), it holding cur.
DropExchange(cur, ptr) == IF cur = ptr THEN 0 ELSE cur

\* A release that deallocates o whoever else holds it.
DropReleaseAll(s, o) == [s EXCEPT ![o] = 0]

\* lines 436-439: the strong counts after `unsafe { Arc::from_raw(ptr) }` is
\* dropped: the unit the cell owned on o is given up.
DropRelease(s, o) == ArcDropStrong(s, o)

\* lines 432-439: compare_exchange(ptr_usize, 0); on success the cell's unit
\* of the ModuleData at that address is dropped.
DropCas(t) ==
    /\ At(t, "drop_cas")
    /\ cell' = DropExchange(cell, ptr_usize[t])
    /\ IF cell = ptr_usize[t]
       THEN LET o == Occupant(cell) IN
            /\ strong' = DropRelease(strong, o)
            /\ frees' = [x \in Objs |-> IF strong[x] > 0 /\ strong'[x] = 0
                                        THEN frees[x] + 1 ELSE frees[x]]
            /\ UNCHANGED <<allocated, addr, ctxt>>
       ELSE UNCHANGED heapVars
    /\ Return(t, -1, held[t])
    /\ UNCHANGED <<ctxState, entries, uaf, callVars>>
    /\ UNCHANGED extVars

\* lines 442-447: is_some is a load of the cell; is_none is its negation.
is_some == cell # 0
is_none == ~is_some

IsSome(t) ==
    /\ Begin(t, "is_some", arg[t])
    /\ Return(t, IF is_some THEN 1 ELSE 0, held[t])
    /\ UNCHANGED <<cell, ctxState, heapVars, entries, uaf>>
    /\ UNCHANGED extVars

----------------------------------------------------------------------------
\* ModuleContextData::get_cache_data, lines 449-512.

\* pub fn get_cache_data(&self, context: &Context): line 454 calls upgrade
get_cache_data(t, c) ==
    /\ ctxState[c] = "live"
    /\ Begin(t, "get_cache_data", c)
    /\ Load(t, 1)
    /\ UNCHANGED uaf
    /\ UNCHANGED extVars

\* lines 456-459: ModuleData::new(context), Arc::new, Arc::into_raw(data.clone())
Alloc(t) ==
    /\ At(t, "alloc")
    /\ \E a \in AllocAddrs :
         LET o == allocated + 1 IN
         /\ allocated' = o
         /\ addr' = [addr EXCEPT ![o] = a]
         /\ ctxt' = [ctxt EXCEPT ![o] = arg[t]]
         /\ strong' = [strong EXCEPT ![o] = 2]
         /\ entries' = [entries EXCEPT ![o] = [x \in SlotIds |-> 0]]
         /\ data' = [data EXCEPT ![t] = o]
    /\ Goto(t, "cas1")
    /\ UNCHANGED <<cell, ctxState, frees, uaf, callVars, site, ptr_usize, arc, actual,
                   held>>
    /\ UNCHANGED extVars

\* lines 462-471: compare_exchange(0, data_usize)
Cas1(t) ==
    /\ At(t, "cas1")
    /\ IF cell = 0
       THEN /\ cell' = addr[data[t]]
            /\ ReturnSome(t, data[t])
       ELSE \* line 473: upgrade again
            /\ actual' = [actual EXCEPT ![t] = cell]
            /\ site' = [site EXCEPT ![t] = 2]
            /\ Goto(t, "load")
            /\ UNCHANGED <<cell, ptr_usize, arc, data, held>>
    /\ UNCHANGED <<ctxState, heapVars, entries, uaf, callVars>>
    /\ UNCHANGED extVars

\* lines 482-505: compare_exchange(actual_data_usize, data_usize); on success
\* the cell's unit of the old ModuleData is dropped, on failure the unit
\* behind data_ptr is dropped and upgrade is called once more.
Cas2(t) ==
    /\ At(t, "cas2")
    /\ IF cell = actual[t]
       THEN LET old == Occupant(cell) IN
            /\ cell' = addr[data[t]]
            /\ strong' = ArcDropStrong(strong, old)
            /\ frees' = ArcDropFrees(strong, frees, old)
            /\ ReturnSome(t, data[t])
       ELSE /\ strong' = ArcDropStrong(strong, data[t])
            /\ site' = [site EXCEPT ![t] = 3]
            /\ Goto(t, "load")
            /\ UNCHANGED <<cell, frees, ptr_usize, arc, data, actual, held>>
    /\ UNCHANGED <<ctxState, allocated, addr, ctxt, entries, uaf, callVars>>
    /\ UNCHANGED extVars

----------------------------------------------------------------------------
\* ModuleData::compile, lines 355-397, as one step on a ModuleData the caller
\* holds a handle to: a populated slot is returned as it is (lines 365, 377),
\* an empty one is filled with the loaded module (line 395).
compile(t, o, a) ==
    /\ held[t][o] > 0
    /\ IsLive(o)
    /\ Begin(t, "compile", arg[t])
    /\ entries' = [entries EXCEPT ![o][a] = IF @ = 0 THEN ModuleOf(a) ELSE @]
    /\ Return(t, entries'[o][a], held[t])
    /\ UNCHANGED <<cell, ctxState, heapVars, uaf>>
    /\ UNCHANGED extVars

----------------------------------------------------------------------------
\* A caller drops a handle it holds (Arc::drop).  A handle to memory that
\* was already deallocated gives up a unit of whatever ModuleData lives at
\* that address now, and deallocates the memory again if none does.
DropHandle(t, o) ==
    /\ ~Crashed
    /\ pc[t] \in {"idle", "panicked"}
    /\ held[t][o] > 0
    /\ held' = [held EXCEPT ![t][o] = @ - 1]
    /\ IF strong[o] > 0
       THEN /\ strong' = ArcDropStrong(strong, o)
            /\ frees' = ArcDropFrees(strong, frees, o)
       ELSE LET x == Occupant(addr[o]) IN
            IF x # 0
            THEN /\ strong' = ArcDropStrong(strong, x)
                 /\ frees' = ArcDropFrees(strong, frees, x)
            ELSE /\ frees' = [frees EXCEPT ![o] = IF @ < 2 THEN @ + 1 ELSE @]
                 /\ UNCHANGED strong
    /\ UNCHANGED <<cell, ctxState, allocated, addr, ctxt, entries, uaf, pc, callVars,
                   localVars, ret>>
    /\ UNCHANGED extVars

----------------------------------------------------------------------------
Next ==
    \/ \E c \in Contexts : NewContext(c)
    \/ \E c \in Contexts : DropContext(c)
    \/ \E t \in Threads, c \in Contexts : upgrade(t, c)
    \/ \E t \in Threads : UpgradeLoad(t)
    \/ \E t \in Threads : UpgradeClone(t)
    \/ \E t \in Threads : UpgradeCheck(t)
    \/ \E t \in Threads : drop(t)
    \/ \E t \in Threads : DropCas(t)
    \/ \E t \in Threads : IsSome(t)
    \/ \E t \in Threads, c \in Contexts : get_cache_data(t, c)
    \/ \E t \in Threads : Alloc(t)
    \/ \E t \in Threads : Cas1(t)
    \/ \E t \in Threads : Cas2(t)
    \/ \E t \in Threads, o \in Objs, a \in AccelIds : compile(t, o, a)
    \/ \E t \in Threads, o \in Objs : DropHandle(t, o)

Spec == Init /\ [][Next]_vars

\* The same program with one more call.
InitDeep ==
    /\ cell = 0
    /\ ctxState = [c \in Contexts |-> "new"]
    /\ allocated = 0
    /\ addr = [o \in Objs |-> 0]
    /\ ctxt = [o \in Objs |-> "A"]
    /\ strong = [o \in Objs |-> 0]
    /\ frees = [o \in Objs |-> 0]
    /\ entries = [o \in Objs |-> [a \in SlotIds |-> 0]]
    /\ uaf = FALSE
    /\ pc = [t \in Threads |-> "idle"]
    /\ op = [t \in Threads |-> "none"]
    /\ arg = [t \in Threads |-> "A"]
    /\ site = [t \in Threads |-> 0]
    /\ ptr_usize = [t \in Threads |-> 0]
    /\ arc = [t \in Threads |-> 0]
    /\ data = [t \in Threads |-> 0]
    /\ actual = [t \in Threads |-> 0]
    /\ ret = [t \in Threads |-> -1]
    /\ held = [t \in Threads |-> [o \in Objs |-> 0]]
    /\ calls = [t \in Threads |-> 0]
    /\ limit = MaxCalls + 1
    /\ InitExt

SpecDeep == InitDeep /\ [][Next]_vars

\* Concurrent first use: Context B is live and the threads only call
\* get_cache_data(B).  The cell starts empty, or holds the ModuleData that
\* an earlier get_cache_data(A) left there, Context A having been destroyed
\* since and that call's handle dropped.
InitResolve ==
    /\ \E stale \in BOOLEAN :
         /\ cell = (IF stale THEN 1 ELSE 0)
         /\ ctxState = [c \in Contexts |->
                          IF c = "B" THEN "live" ELSE IF stale THEN "dead" ELSE "new"]
         /\ allocated = (IF stale THEN 1 ELSE 0)
         /\ addr = [o \in Objs |-> IF stale /\ o = 1 THEN 1 ELSE 0]
         /\ strong = [o \in Objs |-> IF stale /\ o = 1 THEN 1 ELSE 0]
    /\ ctxt = [o \in Objs |-> "A"]
    /\ frees = [o \in Objs |-> 0]
    /\ entries = [o \in Objs |-> [a \in SlotIds |-> 0]]
    /\ uaf = FALSE
    /\ pc = [t \in Threads |-> "idle"]
    /\ op = [t \in Threads |-> "none"]
    /\ arg = [t \in Threads |-> "A"]
    /\ site = [t \in Threads |-> 0]
    /\ ptr_usize = [t \in Threads |-> 0]
    /\ arc = [t \in Threads |-> 0]
    /\ data = [t \in Threads |-> 0]
    /\ actual = [t \in Threads |-> 0]
    /\ ret = [t \in Threads |-> -1]
    /\ held = [t \in Threads |-> [o \in Objs |-> 0]]
    /\ calls = [t \in Threads |-> 0]
    /\ limit = MaxCalls
    /\ InitExt

NextResolve ==
    \/ \E t \in Threads : get_cache_data(t, "B")
    \/ \E t \in Threads : UpgradeLoad(t)
    \/ \E t \in Threads : UpgradeClone(t)
    \/ \E t \in Threads : UpgradeCheck(t)
    \/ \E t \in Threads : Alloc(t)
    \/ \E t \in Threads : Cas1(t)
    \/ \E t \in Threads : Cas2(t)
    \/ \E t \in Threads, o \in Objs : DropHandle(t, o)

SpecResolve == InitResolve /\ [][NextResolve]_vars

----------------------------------------------------------------------------
\* ModuleData::get and ModuleData::compile, lines 335-397, step by step, on
\* the ModuleData numbered 1 and the slots SlotIds of its table.  Platform
\* modules are numbered as load_kernel yields them; a module has the type
\* D::ModuleData of the device type D that loaded it.  The collaborators
\* codegen.codegen and D::load_kernel may fail.  A slot beyond the table's
\* length reads as None, as read.get(accel_id) yields it.

\* The frame of the steps on the table of modules.
compileFrame == <<cell, ctxState, heapVars, uaf, pc, callVars, localVars, ret, held, idVars,
                  registryVars, metaVars, handleVars>>

\* line 343, 374: <D::ModuleData as PlatformModuleData>::downcast_arc(v):
\* the module (Some) if it has D's module type, 0 (None) otherwise.
downcast_arc(m, ty) == IF moduleTy[m] = ty THEN m ELSE 0

\* A get that takes a module of any type for absent, whatever the flag.
get_result_Tolerant(v, ty, expect) ==
    IF v = 0 THEN 0
    ELSE IF downcast_arc(v, ty) # 0 THEN v
    ELSE 0

\* lines 339-353: the result of get on a slot holding v: None (0), the
\* module, or a panic (-3) when the type is not the expected one and
\* expect_platform_ty is set.
get_result(v, ty, expect) ==
    IF v = 0 THEN 0
    ELSE IF downcast_arc(v, ty) # 0 THEN v
    ELSE IF expect THEN -3
    ELSE 0

\* line 349: get logs a warning when it takes a module of another type for absent.
get_warns(v, ty, expect) == v # 0 /\ downcast_arc(v, ty) = 0 /\ ~expect

\* A call of get or compile starts.
CBegin(t, name, a, ty, e) ==
    /\ cpc[t] = "idle"
    /\ ccalls < MaxCalls
    /\ ccalls' = ccalls + 1
    /\ cop' = [cop EXCEPT ![t] = name]
    /\ cacc' = [cacc EXCEPT ![t] = a]
    /\ cdev' = [cdev EXCEPT ![t] = ty]
    /\ cexpect' = [cexpect EXCEPT ![t] = e]

CGoto(t, p) ==
    /\ cpc' = [cpc EXCEPT ![t] = p]
    /\ cret' = [cret EXCEPT ![t] = -1]

CReturn(t, r) ==
    /\ cpc' = [cpc EXCEPT ![t] = "idle"]
    /\ cret' = [cret EXCEPT ![t] = r]

\* fn get, line 335: the call arrives at self.entries.read().
get(t, a, ty, e) ==
    /\ CBegin(t, "get", a, ty, e)
    /\ CGoto(t, "read")
    /\ UNCHANGED <<entries, elock, moduleTy, readers, cseen, codegens, loads, cfails, cdevs, warns>>
    /\ UNCHANGED compileFrame

\* pub fn compile, lines 364-365: the call arrives at the read() of self.get.
compile_get(t, a, ty, e) ==
    /\ CBegin(t, "compile", a, ty, e)
    /\ CGoto(t, "read")
    /\ cdevs' = cdevs \cup {<<a, ty>>}
    /\ UNCHANGED <<entries, elock, moduleTy, readers, cseen, codegens, loads, cfails, warns>>
    /\ UNCHANGED compileFrame

\* A read lock that an upgradable reader shuts out as a writer does.
ReadAllowed_Exclusive(l) == l[1] = "free"

\* line 339: RwLock::read() is granted unless a writer holds the lock; an
\* upgradable reader (line 371) does not shut plain readers out.
ReadAllowed(l) == l[1] # "write"

\* line 339: let read = self.entries.read();
get_read(t) ==
    /\ cpc[t] = "read"
    /\ ReadAllowed(elock)
    /\ readers' = readers + 1
    /\ cseen' = [cseen EXCEPT ![t] = elock[1]]
    /\ CGoto(t, "get")
    /\ UNCHANGED <<entries, elock, moduleTy, cop, cdev, cacc, cexpect, ccalls, codegens, loads,
                   cfails, cdevs, warns>>
    /\ UNCHANGED compileFrame

\* lines 340-353, and 365-367 for compile: the look at the slot under the
\* read guard, which is dropped on the way out (return or panic).
get_body(t) ==
    /\ cpc[t] = "get"
    /\ readers' = readers - 1
    /\ LET r == get_result(entries[1][cacc[t]], cdev[t], cexpect[t]) IN
       IF r = -3 THEN CGoto(t, "panicked")
       ELSE IF cop[t] = "get" \/ r # 0 THEN CReturn(t, r)
       ELSE CGoto(t, "upgradable_read")
    /\ warns' = (IF get_warns(entries[1][cacc[t]], cdev[t], cexpect[t]) THEN warns + 1 ELSE warns)
    /\ cseen' = [cseen EXCEPT ![t] = "none"]
    /\ UNCHANGED <<entries, elock, moduleTy, cop, cdev, cacc, cexpect, ccalls, codegens,
                   loads, cfails, cdevs>>
    /\ UNCHANGED compileFrame

\* A second look that never finds the slot populated.
compile_prev_Blind(v, ty, expect) == 0

\* lines 373-384: the second look at the slot under the upgradable lock: the
\* module of the expected type (return it), a panic (-3), or 0 (go on and
\* compile: the slot is empty, or holds another type and the flag is off).
compile_prev(v, ty, expect) ==
    IF v = 0 THEN 0
    ELSE IF downcast_arc(v, ty) # 0 THEN v
    ELSE IF expect THEN -3
    ELSE 0

\* An upgradable lock that is granted beside another upgradable reader.
UpgradableAllowed_Shared(l) == l[1] # "write"

\* line 371: RwLock::upgradable_read() is granted when neither a writer nor
\* another upgradable reader holds the lock; plain readers do not matter.
UpgradableAllowed(l) == l[1] = "free"

\* lines 371-384: entries.upgradable_read(), then the second look; leaving
\* the function drops the guard.
compile_lock(t) ==
    /\ cpc[t] = "upgradable_read"
    /\ UpgradableAllowed(elock)
    /\ LET r == compile_prev(entries[1][cacc[t]], cdev[t], cexpect[t]) IN
       IF r = -3 THEN CGoto(t, "panicked") /\ UNCHANGED elock
       ELSE IF r # 0 THEN CReturn(t, r) /\ UNCHANGED elock
       ELSE CGoto(t, "codegen") /\ elock' = <<"upgradable", t>>
    /\ UNCHANGED <<entries, moduleTy, cop, cdev, cacc, readers, cseen, cexpect, ccalls, codegens,
                   loads, cfails, cdevs, warns>>
    /\ UNCHANGED compileFrame

\* An error return that keeps the guard.
compile_err_lock_Keep(l) == l

\* The lock after `?` returns an error at lines 386, 394: the guard is dropped.
compile_err_lock(l) == <<"free", "none">>

\* line 386: codegen.codegen(desc)?
compile_codegen(t) ==
    /\ cpc[t] = "codegen"
    /\ codegens' = codegens + 1
    /\ \E ok \in BOOLEAN :
         IF ok
         THEN CGoto(t, "upgrade") /\ UNCHANGED <<elock, cfails>>
         ELSE /\ CReturn(t, -2)
              /\ elock' = compile_err_lock(elock)
              /\ cfails' = cfails + 1
    /\ UNCHANGED <<entries, moduleTy, cop, cdev, cacc, readers, cseen, cexpect, ccalls, loads,
                   cdevs, warns>>
    /\ UNCHANGED compileFrame

\* lines 389-392: RwLockUpgradableReadGuard::upgrade(guard) waits until the
\* plain readers have left, then the resize (a slot out of range reads as
\* None, so the resize changes nothing seen).
compile_upgrade(t) ==
    /\ cpc[t] = "upgrade"
    /\ readers = 0
    /\ elock' = <<"write", t>>
    /\ CGoto(t, "load_kernel")
    /\ UNCHANGED <<entries, moduleTy, cop, cdev, cacc, readers, cseen, cexpect, ccalls, codegens,
                   loads, cfails, cdevs, warns>>
    /\ UNCHANGED compileFrame

\* A return that keeps the write guard.
compile_done_lock_Keep(l) == l

\* line 396: return Ok(module) drops the write guard.
compile_done_lock(l) == <<"free", "none">>

\* lines 394-396: D::load_kernel(accel, &*codegen)?, guard[accel_id] = Some(module)
compile_load(t) ==
    /\ cpc[t] = "load_kernel"
    /\ loads' = loads + 1
    /\ \E ok \in BOOLEAN :
         IF ok
         THEN LET m == Len(moduleTy) + 1 IN
              /\ moduleTy' = Append(moduleTy, cdev[t])
              /\ entries' = [entries EXCEPT ![1][cacc[t]] = m]
              /\ CReturn(t, m)
              /\ elock' = compile_done_lock(elock)
              /\ UNCHANGED cfails
         ELSE /\ CReturn(t, -2)
              /\ elock' = compile_err_lock(elock)
              /\ cfails' = cfails + 1
              /\ UNCHANGED <<entries, moduleTy>>
    /\ UNCHANGED <<cop, cdev, cacc, readers, cseen, cexpect, ccalls, codegens, cdevs, warns>>
    /\ UNCHANGED compileFrame

NextCompile ==
    \/ \E t \in Threads, a \in SlotIds, ty \in DevTys, e \in BOOLEAN : get(t, a, ty, e)
    \/ \E t \in Threads, a \in SlotIds, ty \in DevTys, e \in BOOLEAN : compile_get(t, a, ty, e)
    \/ \E t \in Threads : get_read(t)
    \/ \E t \in Threads : get_body(t)
    \/ \E t \in Threads : compile_lock(t)
    \/ \E t \in Threads : compile_codegen(t)
    \/ \E t \in Threads : compile_upgrade(t)
    \/ \E t \in Threads : compile_load(t)

SpecCompile == Init /\ [][NextCompile]_vars

\* The scheduler lets every thread that can take a step take one; the lock
\* hands the write lock to a waiting upgrade ahead of the plain readers that
\* keep arriving; the collaborators return.
FairCompile ==
    \A t \in Threads :
        /\ WF_vars(get_read(t))
        /\ WF_vars(get_body(t))
        /\ SF_vars(compile_lock(t))
        /\ WF_vars(compile_codegen(t))
        /\ SF_vars(compile_upgrade(t))
        /\ WF_vars(compile_load(t))

SpecCompileFair == Init /\ [][NextCompile]_vars /\ FairCompile

----------------------------------------------------------------------------
\* Context::take_accel_id, lines 173-180, on one Context.  Any number of
\* threads may call it, as many at a time as there are Threads; a panic ends
\* the calling thread only.

RECURSIVE SumFetched(_)
SumFetched(S) ==
    IF S = {} THEN 0
    ELSE LET i == CHOOSE j \in S : TRUE IN fetched[i] + SumFetched(S \ {i})
\* The calls between their fetch_add and their check.
InFlight == SumFetched(0..usize_max)

\* A guard that lets every id through.
TooMany_Never(id) == FALSE

\* line 176: id > usize::max_value() / 2
TooMany(id) == id > usize_max \div 2

\* lines 174-175: let id = next_accel_id.fetch_add(1, AcqRel); the addition
\* wraps at the width of usize.
take_accel_id ==
    /\ idCalls < MaxIdCalls
    /\ InFlight < Cardinality(Threads)
    /\ idCalls' = idCalls + 1
    /\ fetched' = [fetched EXCEPT ![next_accel_id] = @ + 1]
    /\ next_accel_id' = (next_accel_id + 1) % 2^UsizeBits
    /\ UNCHANGED <<taken, idPanics>>
    /\ UNCHANGED <<cellVars, compileVars, registryVars, metaVars, handleVars>>

\* lines 176-179: panic!("too many accelerators") or AcceleratorId::new(id)
take_accel_id_check(id) ==
    /\ fetched[id] > 0
    /\ fetched' = [fetched EXCEPT ![id] = @ - 1]
    /\ IF TooMany(id)
       THEN idPanics' = idPanics + 1 /\ UNCHANGED taken
       ELSE taken' = Append(taken, id) /\ UNCHANGED idPanics
    /\ UNCHANGED <<next_accel_id, idCalls>>
    /\ UNCHANGED <<cellVars, compileVars, registryVars, metaVars, handleVars>>

NextIds ==
    \/ take_accel_id
    \/ \E id \in 0..usize_max : take_accel_id_check(id)

SpecIds == Init /\ [][NextIds]_vars

----------------------------------------------------------------------------
\* Context::initialize_accel, lines 184-218, on one Context.  Codegen
\* drivers are numbered as create_target_codegen yields them.  The registry
\* holds Weak references only: a driver is alive while an accelerator holds
\* a strong reference to it, and whether the accelerator keeps the one it is
\* given, and for how long, is up to the accelerator.

\* Weak::upgrade on a driver: some accelerator still holds it.
DriverLive(cg) == cg # 0 /\ \E a \in Accels : accCg[a] = cg /\ cgHeld[a]

\* A registry that never finds a driver.
RegistryLive_Never(desc) == FALSE

\* lines 194-198: the entry is Occupied and o.get().upgrade() is Some
RegistryLive(desc) == translators[desc] # 0 /\ DriverLive(translators[desc])

\* lines 184-191: the call starts and reads the accelerator's target desc;
\* line 193 then waits for the write lock.  (An accelerator is initialized once.)
initialize_accel(t, a) ==
    /\ rpc[t] = "idle"
    /\ a \notin called
    /\ called' = called \cup {a}
    /\ racc' = [racc EXCEPT ![t] = a]
    /\ rret' = [rret EXCEPT ![t] = "none"]
    /\ rpc' = [rpc EXCEPT ![t] = "write"]
    /\ UNCHANGED <<translators, accelerators, mlock, accCg, cgHeld, creates, drivers>>
    /\ UNCHANGED queryVars
    /\ UNCHANGED <<cellVars, compileVars, idVars, metaVars, handleVars>>

\* line 193: let mut w = self.0.m.write()
initialize_lock(t) ==
    /\ rpc[t] = "write"
    /\ mlock = "none"
    /\ mlock' = t
    /\ rpc' = [rpc EXCEPT ![t] = "locked"]
    /\ UNCHANGED <<translators, accelerators, racc, rret, accCg, cgHeld, called, creates, drivers>>
    /\ UNCHANGED queryVars
    /\ UNCHANGED <<cellVars, compileVars, idVars, metaVars, handleVars>>

\* A table that grows by one slot per accelerator, in the order of the calls.
set_slot_Push(tbl, a) == Append(tbl, a)

\* lines 212-215: resize(id + 1, None) when the table is too short, then
\* accelerators[accel.id()] = Some(accel).
set_slot(tbl, a) ==
    LET n == IF Len(tbl) <= IdOf(a) THEN IdOf(a) + 1 ELSE Len(tbl) IN
    [i \in 1..n |-> IF i = IdOf(a) + 1 THEN a
                    ELSE IF i <= Len(tbl) THEN tbl[i]
                    ELSE "None"]

\* An error return that keeps the write lock.
initialize_err_lock_Keep(l) == l

\* lines 202, 207: `?` returns the error and drops the guard w.
initialize_err_lock(l) == "none"

\* lines 194-217, under the write lock: attach the live driver of the desc,
\* or create one (which may fail) and store a Weak to it; then publish the
\* accelerator.  Returning drops the lock guard.
initialize_body(t) ==
    /\ rpc[t] = "locked"
    /\ LET a == racc[t]
           desc == TargetOf(a)
       IN
       IF RegistryLive(desc)
       THEN \* lines 198-199: Accelerator::set_target_codegen(accel, cg)
            /\ accCg' = [accCg EXCEPT ![a] = translators[desc]]
            /\ \E kept \in BOOLEAN : cgHeld' = [cgHeld EXCEPT ![a] = kept]
            /\ accelerators' = set_slot(accelerators, a)
            /\ regOk' = regOk \cup {a}
            /\ rret' = [rret EXCEPT ![t] = "Ok"]
            /\ mlock' = "none"
            /\ UNCHANGED <<translators, creates, drivers>>
       ELSE \* lines 201-203, 207-208: create_target_codegen(accel, self)?
            /\ creates' = creates + 1
            /\ \E ok \in BOOLEAN :
                 IF ok
                 THEN /\ drivers' = drivers + 1
                      /\ translators' = [translators EXCEPT ![desc] = drivers + 1]
                      /\ accCg' = [accCg EXCEPT ![a] = drivers + 1]
                      /\ \E kept \in BOOLEAN : cgHeld' = [cgHeld EXCEPT ![a] = kept]
                      /\ accelerators' = set_slot(accelerators, a)
                      /\ regOk' = regOk \cup {a}
                      /\ rret' = [rret EXCEPT ![t] = "Ok"]
                      /\ mlock' = "none"
                 ELSE /\ rret' = [rret EXCEPT ![t] = "Err"]
                      /\ mlock' = initialize_err_lock(mlock)
                      /\ UNCHANGED <<translators, accelerators, accCg, cgHeld, drivers, regOk>>
    /\ rpc' = [rpc EXCEPT ![t] = "idle"]
    /\ UNCHANGED <<racc, called, qop, qpred, qret>>
    /\ UNCHANGED <<cellVars, compileVars, idVars, metaVars, handleVars>>

\* lines 155, 166: .iter().filter_map(|a| a.as_ref()): the occupied slots,
\* in the order of the ids.
filter_map(tbl) == SelectSeq(tbl, LAMBDA a : a # "None")

\* The predicates a query is called with, each the set of the accelerators
\* it is true of.
Preds == SUBSET Accels

\* Context::filter_accels, lines 150-160, under the read lock.
filter_accels(t, P) ==
    /\ rpc[t] = "idle"
    /\ mlock = "none"
    /\ qop' = "filter"
    /\ qpred' = P
    /\ qret' = SelectSeq(filter_map(accelerators), LAMBDA a : a \in P)
    /\ UNCHANGED <<translators, accelerators, mlock, rpc, racc, rret, accCg, cgHeld, called,
                   creates, drivers, regOk>>
    /\ UNCHANGED <<cellVars, compileVars, idVars, metaVars, handleVars>>

\* Context::find_accel, lines 161-171, under the read lock.
find_accel(t, P) ==
    /\ rpc[t] = "idle"
    /\ mlock = "none"
    /\ qop' = "find"
    /\ qpred' = P
    /\ LET found == SelectSeq(filter_map(accelerators), LAMBDA a : a \in P) IN
       qret' = IF found = <<>> THEN <<>> ELSE <<Head(found)>>
    /\ UNCHANGED <<translators, accelerators, mlock, rpc, racc, rret, accCg, cgHeld, called,
                   creates, drivers, regOk>>
    /\ UNCHANGED <<cellVars, compileVars, idVars, metaVars, handleVars>>

\* An accelerator gives up its strong reference to its driver.
ReleaseDriver(a) ==
    /\ cgHeld[a]
    /\ cgHeld' = [cgHeld EXCEPT ![a] = FALSE]
    /\ UNCHANGED <<translators, accelerators, mlock, rpc, racc, rret, accCg, called, creates,
                   drivers>>
    /\ UNCHANGED queryVars
    /\ UNCHANGED <<cellVars, compileVars, idVars, metaVars, handleVars>>

NextRegistry ==
    \/ \E t \in Threads, a \in Accels : initialize_accel(t, a)
    \/ \E t \in Threads : initialize_lock(t)
    \/ \E t \in Threads : initialize_body(t)
    \/ \E a \in Accels : ReleaseDriver(a)
    \/ \E t \in Threads, P \in Preds : filter_accels(t, P)
    \/ \E t \in Threads, P \in Preds : find_accel(t, P)

SpecRegistry == Init /\ [][NextRegistry]_vars

----------------------------------------------------------------------------
\* Context::load_metadata, lines 142-144, that is
\* AsyncCodegenMetadataLoader::load, lines 39-59, on one Context.  The
\* result Ok holds a read guard on the loader's lock until the caller drops
\* it.  Metadata is numbered by the successful calls of context_metadata().

\* The read guards held, by all threads.
RECURSIVE SumGuards(_)
SumGuards(S) ==
    IF S = {} THEN 0
    ELSE LET t == CHOOSE u \in S : TRUE IN metaGuards[t] + SumGuards(S \ {t})
Readers == SumGuards(Threads)

\* lines 40-47: under the read lock, return the metadata if it is loaded
load_metadata(t) ==
    /\ mpc[t] = "idle"
    /\ mstarted < MaxCalls
    /\ mstarted' = mstarted + 1
    /\ metaWriter = "none"
    /\ IF metadata # 0
       THEN /\ metaGuards' = [metaGuards EXCEPT ![t] = @ + 1]
            /\ mret' = [mret EXCEPT ![t] = metadata]
            /\ UNCHANGED mpc
       ELSE /\ mpc' = [mpc EXCEPT ![t] = "write"]
            /\ mret' = [mret EXCEPT ![t] = -1]
            /\ UNCHANGED metaGuards
    /\ UNCHANGED <<metadata, metaWriter, mloads, msucc, mfails>>
    /\ UNCHANGED <<cellVars, compileVars, idVars, registryVars, handleVars>>

\* line 49: let mut w = self.0.write(): no reader and no writer is left
load_write(t) ==
    /\ mpc[t] = "write"
    /\ metaWriter = "none"
    /\ Readers = 0
    /\ metaWriter' = t
    /\ mpc' = [mpc EXCEPT ![t] = "locked"]
    /\ UNCHANGED <<metadata, metaGuards, mret, mstarted, mloads, msucc, mfails>>
    /\ UNCHANGED <<cellVars, compileVars, idVars, registryVars, handleVars>>

\* A second check that never sees what another thread loaded.
NobodyBeatUs_Always(m) == TRUE

\* line 50: w.is_none()
NobodyBeatUs(m) == m = 0

\* An error return that keeps the write lock.
load_err_lock_Keep(w) == w

\* line 52: `?` returns the error and drops the write guard
load_err_lock(w) == "none"

\* lines 50-58: load if nobody did, downgrade the lock and return a read guard
load_fill(t) ==
    /\ mpc[t] = "locked"
    /\ IF NobodyBeatUs(metadata)
       THEN /\ mloads' = mloads + 1
            /\ \E ok \in BOOLEAN :
                 IF ok
                 THEN /\ msucc' = msucc + 1
                      /\ metadata' = msucc + 1
                      /\ metaWriter' = "none"
                      /\ metaGuards' = [metaGuards EXCEPT ![t] = @ + 1]
                      /\ mret' = [mret EXCEPT ![t] = msucc + 1]
                      /\ UNCHANGED mfails
                 ELSE /\ mfails' = mfails + 1
                      /\ metaWriter' = load_err_lock(metaWriter)
                      /\ mret' = [mret EXCEPT ![t] = -2]
                      /\ UNCHANGED <<metadata, metaGuards, msucc>>
       ELSE /\ metaWriter' = "none"
            /\ metaGuards' = [metaGuards EXCEPT ![t] = @ + 1]
            /\ mret' = [mret EXCEPT ![t] = metadata]
            /\ UNCHANGED <<metadata, mloads, msucc, mfails>>
    /\ mpc' = [mpc EXCEPT ![t] = "idle"]
    /\ UNCHANGED mstarted
    /\ UNCHANGED <<cellVars, compileVars, idVars, registryVars, handleVars>>

\* A caller drops a read guard it was given.
DropGuard(t) ==
    /\ mpc[t] = "idle"
    /\ metaGuards[t] > 0
    /\ metaGuards' = [metaGuards EXCEPT ![t] = @ - 1]
    /\ UNCHANGED <<metadata, metaWriter, mpc, mret, mstarted, mloads, msucc, mfails>>
    /\ UNCHANGED <<cellVars, compileVars, idVars, registryVars, handleVars>>

NextMeta ==
    \/ \E t \in Threads : load_metadata(t)
    \/ \E t \in Threads : load_write(t)
    \/ \E t \in Threads : load_fill(t)
    \/ \E t \in Threads : DropGuard(t)

SpecMeta == Init /\ [][NextMeta]_vars

----------------------------------------------------------------------------
\* Context handles, lines 79-80, 86-148 and 222-245.  A Context is an
\* Arc<ContextData>; the allocation lives while a strong or a weak handle
\* refers to it, and its address may be used again afterwards.

\* Arc::strong_count and Arc::weak_count of instance i.
StrongCount(i) == Cardinality({h \in Hs : hInst[h] = i})
WeakCount(i) == Cardinality({w \in Ws : wInst[w] = i})
\* The allocation of instance i has not been freed.
CAllocated(i) == i \in 1..cInsts /\ StrongCount(i) + WeakCount(i) > 0
CUsed == {cAddr[i] : i \in 1..cInsts}
CFree == {a \in CUsed : \A i \in 1..cInsts : cAddr[i] = a => ~CAllocated(i)}
CFresh == CAddrs \ CUsed
\* The addresses Arc::new may return: any that holds no allocation (of those
\* never used, the lowest).
CAllocAddrs ==
    CFree \cup
    (IF CFresh = {} THEN {} ELSE {CHOOSE a \in CFresh : \A b \in CFresh : a <= b})

\* An equality that compares the contents.
eq_Contents(lhs, rhs) == cNext[hInst[lhs]] = cNext[hInst[rhs]]

\* lines 223-231: Arc::ptr_eq(&self.0, &rhs.0)
eq(lhs, rhs) == cAddr[hInst[lhs]] = cAddr[hInst[rhs]]

handleFrame == <<cellVars, compileVars, idVars, registryVars, metaVars>>

\* Context::new, lines 86-140: Err (build_global()? fails), or a handle to a
\* new ContextData
ContextNew(h) ==
    /\ hInst[h] = 0
    /\ newCalls < MaxCalls
    /\ newCalls' = newCalls + 1
    /\ \E ok \in BOOLEAN :
         IF ok
         THEN \E a \in CAllocAddrs :
                /\ cInsts' = cInsts + 1
                /\ cAddr' = [cAddr EXCEPT ![cInsts + 1] = a]
                /\ cNext' = [cNext EXCEPT ![cInsts + 1] = 0]
                /\ hInst' = [hInst EXCEPT ![h] = cInsts + 1]
         ELSE UNCHANGED <<cInsts, cAddr, cNext, hInst>>
    /\ UNCHANGED <<wInst, lastEq, lastNone>>
    /\ UNCHANGED handleFrame

\* #[derive(Clone)], line 79: a second handle to the same ContextData
ContextClone(h, h2) ==
    /\ hInst[h] # 0
    /\ hInst[h2] = 0
    /\ hInst' = [hInst EXCEPT ![h2] = hInst[h]]
    /\ UNCHANGED <<wInst, cAddr, cNext, cInsts, newCalls, lastEq, lastNone>>
    /\ UNCHANGED handleFrame

\* A Context handle is dropped.
ContextDrop(h) ==
    /\ hInst[h] # 0
    /\ hInst' = [hInst EXCEPT ![h] = 0]
    /\ UNCHANGED <<wInst, cAddr, cNext, cInsts, newCalls, lastEq, lastNone>>
    /\ UNCHANGED handleFrame

\* lines 146-148: WeakContext(Arc::downgrade(&self.0)), called by the holder
\* of a Context and by ModuleData::new (line 331)
downgrade_ref(h, w) ==
    /\ hInst[h] # 0
    /\ wInst[w] = 0
    /\ wInst' = [wInst EXCEPT ![w] = hInst[h]]
    /\ UNCHANGED <<hInst, cAddr, cNext, cInsts, newCalls, lastEq, lastNone>>
    /\ UNCHANGED handleFrame

\* An upgrade that succeeds as long as the allocation exists.
weak_upgrade_Allocated(i) == CAllocated(i)

\* line 242: self.0.upgrade() is Some while a strong handle to the
\* ContextData exists.
weak_upgrade(i) == StrongCount(i) > 0

\* lines 241-244: WeakContext::upgrade: Some(Context), a new strong handle,
\* or None
WeakContextUpgrade(w, h) ==
    /\ wInst[w] # 0
    /\ hInst[h] = 0
    /\ IF weak_upgrade(wInst[w])
       THEN /\ hInst' = [hInst EXCEPT ![h] = wInst[w]]
            /\ lastNone' = FALSE
       ELSE /\ lastNone' = TRUE
            /\ ~lastNone
            /\ UNCHANGED hInst
    /\ UNCHANGED <<wInst, cAddr, cNext, cInsts, newCalls, lastEq>>
    /\ UNCHANGED handleFrame

\* A WeakContext handle is dropped, and what its holder knew with it.
WeakDrop(w) ==
    /\ wInst[w] # 0
    /\ wInst' = [wInst EXCEPT ![w] = 0]
    /\ lastNone' = FALSE
    /\ UNCHANGED <<hInst, cAddr, cNext, cInsts, newCalls, lastEq>>
    /\ UNCHANGED handleFrame

\* The content of the Context behind h changes (take_accel_id, line 174).
ContextUse(h) ==
    /\ hInst[h] # 0
    /\ cNext[hInst[h]] = 0
    /\ cNext' = [cNext EXCEPT ![hInst[h]] = 1]
    /\ UNCHANGED <<hInst, wInst, cAddr, cInsts, newCalls, lastEq, lastNone>>
    /\ UNCHANGED handleFrame

\* lhs == rhs, lines 223-231
ContextEq(lhs, rhs) ==
    /\ hInst[lhs] # 0
    /\ hInst[rhs] # 0
    /\ lastEq' = <<hInst[lhs], hInst[rhs], eq(lhs, rhs)>>
    /\ lastEq' # lastEq
    /\ UNCHANGED <<hInst, wInst, cAddr, cNext, cInsts, newCalls, lastNone>>
    /\ UNCHANGED handleFrame

NextHandles ==
    \/ \E h \in Hs : ContextNew(h)
    \/ \E h, h2 \in Hs : ContextClone(h, h2)
    \/ \E h \in Hs : ContextDrop(h)
    \/ \E h \in Hs, w \in Ws : downgrade_ref(h, w)
    \/ \E w \in Ws, h \in Hs : WeakContextUpgrade(w, h)
    \/ \E w \in Ws : WeakDrop(w)
    \/ \E h \in Hs : ContextUse(h)
    \/ \E lhs, rhs \in Hs : ContextEq(lhs, rhs)

SpecHandles == Init /\ [][NextHandles]_vars

----------------------------------------------------------------------------
\* Properties of the cell.

\* C1: no thread ever rebuilds, clones or dereferences an Arc<ModuleData>
\* whose strong count has already reached zero: in particular a thread that
\* has loaded the cell's word in upgrade and has not yet cloned never finds
\* the ModuleData behind that word freed by a concurrent drop or replacement.
C1_NoUseAfterFree == ~uaf

\* Thread t's call returns in this step.
Returns(t) == pc[t] # "panicked" /\ pc'[t] = "idle" /\ (pc[t] # "idle" \/ calls'[t] # calls[t])
\* Thread t's call (of the cell's operation name) has returned and is its last.
Returned(t, name) == pc[t] = "idle" /\ op[t] = name
\* No thread but t has ever started a call.
Alone(t) == \A u \in Threads \ {t} : calls[u] = 0
\* The handles to o that callers hold.
RECURSIVE SumHeld(_, _)
SumHeld(S, o) ==
    IF S = {} THEN 0
    ELSE LET t == CHOOSE u \in S : TRUE IN held[t][o] + SumHeld(S \ {t}, o)
Handles(o) == SumHeld(Threads, o)

\* C2: (threads that only call get_cache_data with the one live Context, on a
\* cell that starts empty or stale) every call returns the same ModuleData
\* instance, and once a ModuleData of that Context is the cell's value the
\* cell never changes again, so at most one of the objects these calls
\* allocate ever becomes the cell's value.
C2_ReturnsAgree ==
    \A t, u \in Threads :
        Returned(t, "get_cache_data") /\ Returned(u, "get_cache_data") => ret[t] = ret[u]
C2_OnePublished ==
    cell' # cell => cell = 0 \/ ctxt[Occupant(cell)] # "B"
C2_SingleCachedValue == [](C2_ReturnsAgree) /\ [][C2_OnePublished]_vars

\* C3: (only one Context was ever created, so every caller of get_cache_data
\* passes that same live Context) a call of get_cache_data never panics,
\* whatever upgrade, drop and get_cache_data calls run beside it, and it
\* returns a ModuleData whose recorded Context is the one supplied.
C3_ResolveNeverFails ==
    ctxState["B"] = "new" =>
        \A t \in Threads :
            op[t] = "get_cache_data" =>
                /\ pc[t] # "panicked"
                /\ pc[t] = "idle" => ret[t] \in Objs /\ ctxt[ret[t]] = arg[t]

\* C4: upgrade and get_cache_data never return a ModuleData whose recorded
\* Context is not the supplied one or has been destroyed.
C4_Step ==
    \A t \in Threads :
        Returns(t) /\ op'[t] \in {"upgrade", "get_cache_data"} /\ ret'[t] > 0 =>
            /\ ctxt[ret'[t]] = arg'[t]
            /\ WeakUpgrade(ctxt[ret'[t]])
            /\ strong'[ret'[t]] > 0
C4_NoStaleHit == [][C4_Step]_vars

\* Thread t's direct call of upgrade has cloned the Arc of a ModuleData whose
\* recorded Context is not the supplied one, and takes the check of lines
\* 417-421 in this step.
C5_ChecksMismatch(t) ==
    /\ op[t] = "upgrade"
    /\ pc[t] = "check"
    /\ pc'[t] # "check"
    /\ ctxt[arc[t]] # arg[t]

\* C5 as stated: whenever the held ModuleData's recorded Context differs from
\* the supplied one, destroyed or still alive, upgrade returns None and does
\* not panic.
C5_MismatchIsEmpty ==
    [][\A t \in Threads :
         C5_ChecksMismatch(t) => pc'[t] = "idle" /\ ret'[t] = 0]_vars

\* C5 amended: when the recorded Context differs from the supplied one,
\* upgrade returns None without panicking if the recorded Context has been
\* destroyed, and panics (the assertion of line 420) if it is still alive.
C5_MismatchAmended ==
    [][\A t \in Threads :
         C5_ChecksMismatch(t) =>
            IF WeakUpgrade(ctxt[arc[t]])
            THEN pc'[t] = "panicked"
            ELSE pc'[t] = "idle" /\ ret'[t] = 0 /\ held'[t] = held[t]]_vars

\* C5's case: a direct upgrade call hit the assertion while the recorded
\* Context of the held ModuleData was alive and another one was supplied.
C5_Witness ==
    \E t \in Threads :
        /\ op[t] = "upgrade"
        /\ pc[t] = "panicked"
        /\ cell # 0
        /\ ctxt[Occupant(cell)] # arg[t]
        /\ WeakUpgrade(ctxt[Occupant(cell)])

\* C6: (the cell starts with ModuleData 1 of the destroyed Context A, and the
\* threads call get_cache_data(B)) every call returns a ModuleData of B other
\* than object 1, the cell holds what the call returned, object 1 is never
\* deallocated twice, and it is deallocated once all calls have returned.
C6_StaleReplaced ==
    ctxState["A"] = "dead" =>
        /\ frees[1] <= 1
        /\ \A t \in Threads :
              Returned(t, "get_cache_data") =>
                  /\ ret[t] \in Objs \ {1}
                  /\ ctxt[ret[t]] = "B"
                  /\ cell = addr[ret[t]]
                  /\ Occupant(cell) = ret[t]
        /\ (\E t \in Threads : Returned(t, "get_cache_data")) /\ (\A t \in Threads : Idle(t))
              => frees[1] = 1 /\ strong[1] = 0

\* C7: once every call has returned and every handle given to a caller has
\* been dropped, each ModuleData ever allocated has strong count 1 if it is
\* the cell's value and has been deallocated exactly once otherwise; no
\* ModuleData is ever deallocated twice.
C7_Quiescent ==
    /\ \A t \in Threads : Idle(t)
    /\ \A t \in Threads, o \in Objs : held[t][o] = 0
C7_NoLeakNoDoubleFree ==
    /\ \A o \in Objs : frees[o] <= 1 /\ strong[o] >= 0
    /\ C7_Quiescent =>
          \A o \in 1..allocated :
              IF cell = addr[o] /\ IsLive(o)
              THEN strong[o] = 1 /\ frees[o] = 0
              ELSE strong[o] = 0 /\ frees[o] = 1

\* C8: the cell changes only from empty to a new ModuleData by
\* get_cache_data, from one ModuleData to another by get_cache_data when the
\* old one's Context is dead or is not the supplied one, and to empty by drop.
C8_Step ==
    cell' # cell =>
        \E t \in Threads :
            /\ pc'[t] # pc[t]
            /\ \/ /\ cell = 0
                  /\ op[t] = "get_cache_data"
                  /\ cell' = addr'[ret'[t]]
               \/ /\ cell # 0
                  /\ cell' # 0
                  /\ op[t] = "get_cache_data"
                  /\ cell' = addr'[ret'[t]]
                  /\ \/ ~WeakUpgrade(ctxt[Occupant(cell)])
                     \/ ctxt[Occupant(cell)] # arg[t]
               \/ /\ cell # 0
                  /\ cell' = 0
                  /\ op[t] = "drop"
C8_Transitions == [][C8_Step]_vars

\* C9: (one thread uses the cell, no other thread has called anything) after
\* get_cache_data returns the cell is present and holds what was returned;
\* after drop returns the cell is empty and no ModuleData has a strong unit
\* beyond the callers' handles; drop on an empty cell changes nothing.
C9_State ==
    \A t \in Threads :
        Alone(t) =>
            /\ Returned(t, "get_cache_data") =>
                  is_some /\ ~is_none /\ ret[t] \in Objs /\ cell = addr[ret[t]]
                  /\ strong[ret[t]] = Handles(ret[t]) + 1
            /\ Returned(t, "drop") =>
                  is_none /\ ~is_some /\ \A o \in Objs : strong[o] = Handles(o)
C9_DropOnEmpty ==
    \A t \in Threads :
        pc[t] = "idle" /\ calls'[t] # calls[t] /\ op'[t] = "drop" /\ cell = 0 =>
            /\ pc'[t] = "idle"
            /\ UNCHANGED <<cell, ctxState, heapVars, entries, held>>
C9_ReleaseEmpties == [](C9_State) /\ [][C9_DropOnEmpty]_vars

\* C9's case: a thread alone filled the empty cell with get_cache_data and
\* then called drop, which returned: the cell is empty again.
C9_Witness ==
    \E t \in Threads :
        /\ Alone(t)
        /\ Returned(t, "drop")
        /\ calls[t] = 2
        /\ allocated = 1
        /\ held[t][1] = 1
        /\ cell = 0

\* C10: a step of drop leaves every ModuleData that a caller holds a handle
\* to allocated, with a strong count of at least the handles held, and
\* leaves its table of compiled modules as it was.
C10_Step ==
    \A t \in Threads :
        /\ op'[t] = "drop"
        /\ (pc[t] = "drop_cas" /\ pc'[t] # pc[t]) \/ calls'[t] # calls[t]
        =>
            \A o \in Objs :
                Handles(o) > 0 /\ IsLive(o) =>
                    /\ strong'[o] >= Handles(o)
                    /\ held' = held
                    /\ entries'[o] = entries[o]
                    /\ ctxt'[o] = ctxt[o]
----------------------------------------------------------------------------
\* Properties of ModuleData's table of modules.

\* Thread t's compile call has returned Ok(module) and is its last call.
CompiledOk(t) == cop[t] = "compile" /\ cpc[t] = "idle" /\ cret[t] > 0
\* The slot holds a module that is not of thread t's device type.
SlotMismatch(t) == entries[1][cacc[t]] # 0 /\ moduleTy[entries[1][cacc[t]]] # cdev[t]

\* C11: as long as every compile call is for the same accelerator and no
\* collaborator operation has failed, codegen and load_kernel are each
\* invoked at most once, exactly once when a compile call has returned, and
\* all compile calls return the same module, the one in the slot.
C11_SingleCompile ==
    (cfails = 0 /\ Cardinality(cdevs) <= 1) =>
        /\ codegens <= 1
        /\ loads <= 1
        /\ \A t \in Threads :
              CompiledOk(t) =>
                  /\ codegens = 1
                  /\ loads = 1
                  /\ cret[t] = entries[1][cacc[t]]
        /\ \A t, u \in Threads : CompiledOk(t) /\ CompiledOk(u) => cret[t] = cret[u]

\* C11's case: two threads found the slot empty on the fast path; one has
\* compiled and returned the module, the other is about to take the lock.
C11_Witness ==
    \E t, u \in Threads :
        /\ t # u
        /\ cfails = 0
        /\ Cardinality(cdevs) = 1
        /\ CompiledOk(t)
        /\ cop[u] = "compile"
        /\ cpc[u] = "upgradable_read"

\* C12: a populated slot is never overwritten or cleared by any step of get
\* or compile, and a module that a call returned for the slot is the module
\* in the slot ever after.
C12_Step == \A a \in SlotIds : entries[1][a] # 0 => entries'[1][a] = entries[1][a]
C12_WriteOnce == [][C12_Step]_vars

\* C13: a step in which a collaborator fails returns Err, leaves the table
\* of modules as it was and the lock free; a compile call that takes the
\* lock on an empty slot goes on to the collaborator, whatever failed
\* before, and the step at line 386 invokes it.
C13_Step ==
    \A t \in Threads :
        /\ (cpc[t] \in {"codegen", "load_kernel"} /\ cfails' # cfails =>
              /\ cpc'[t] = "idle"
              /\ cret'[t] = -2
              /\ entries' = entries
              /\ elock' = <<"free", "none">>)
        /\ (cpc[t] = "upgradable_read" /\ cpc'[t] # cpc[t] /\ entries[1][cacc[t]] = 0 =>
              cpc'[t] = "codegen")
        /\ (cpc[t] = "codegen" /\ cpc'[t] # cpc[t] => codegens' = codegens + 1)
C13_Held ==
    \A t \in Threads : cpc[t] \in {"idle", "panicked", "read", "get", "upgradable_read"} => elock[2] # t
C13_FailureNotCached == [](C13_Held) /\ [][C13_Step]_vars

\* C13's case: a collaborator has failed, and a later compile call invoked
\* the collaborators again and filled the slot.
C13_Witness ==
    /\ cfails >= 1
    /\ codegens >= 2
    /\ \E t \in Threads : CompiledOk(t) /\ entries[1][cacc[t]] = cret[t]

\* C14: a step of get (the call itself or compile's fast path) that finds
\* the slot populated with a module of another type panics when
\* expect_platform_ty is set and otherwise logs a warning and yields None
\* (get returns None, compile goes on to the lock); the slot is unchanged
\* either way.
C14_Step ==
    \A t \in Threads :
        cpc[t] = "get" /\ cpc'[t] # cpc[t] =>
            (SlotMismatch(t) =>
                /\ entries' = entries
                /\ (cexpect[t] => cpc'[t] = "panicked")
                /\ (~cexpect[t] => warns' = warns + 1)
                /\ (~cexpect[t] /\ cop[t] = "get" => cpc'[t] = "idle" /\ cret'[t] = 0)
                /\ (~cexpect[t] /\ cop[t] = "compile" => cpc'[t] = "upgradable_read"))
C14_GetMismatch == [][C14_Step]_vars

\* C14's case: the slot holds a module of one device type; a get for the
\* other type with the flag set has panicked, and one without it returned None.
C14_Witness ==
    \E t, u \in Threads :
        /\ cop[t] = "get" /\ cexpect[t] /\ cpc[t] = "panicked" /\ SlotMismatch(t)
        /\ cop[u] = "get" /\ ~cexpect[u] /\ cpc[u] = "idle" /\ cret[u] = 0 /\ SlotMismatch(u)
        /\ warns = 1

----------------------------------------------------------------------------
\* Properties of the accelerator id counter.

\* C15: no two calls of take_accel_id on one Context return, or are about
\* to return, the same AcceleratorId.
C15_UniqueIds ==
    /\ \A i, j \in 1..Len(taken) : i # j => taken[i] # taken[j]
    /\ \A id \in 0..usize_max :
          ~TooMany(id) => fetched[id] + Cardinality({i \in 1..Len(taken) : taken[i] = id}) <= 1

\* C16: the step that checks a fetched value returns it as an id when it is
\* at most usize_max / 2 and panics for every value above; no id returned
\* exceeds usize_max / 2.
C16_Step ==
    \A id \in 0..usize_max :
        fetched'[id] < fetched[id] =>
            /\ (id <= (2^UsizeBits - 1) \div 2 =>
                  taken' = Append(taken, id) /\ idPanics' = idPanics)
            /\ (id > (2^UsizeBits - 1) \div 2 =>
                  taken' = taken /\ idPanics' = idPanics + 1)
C16_Bounded == \A i \in 1..Len(taken) : taken[i] <= (2^UsizeBits - 1) \div 2
C16_OverflowGuard == [](C16_Bounded) /\ [][C16_Step]_vars

\* C16's case: the largest id allowed has been returned and the call that
\* fetched the value after it has panicked.
C16_Witness ==
    /\ \E i \in 1..Len(taken) : taken[i] = usize_max \div 2
    /\ idPanics >= 1
    /\ fetched[usize_max \div 2 + 1] = 0

----------------------------------------------------------------------------
\* Properties of the registry of codegen drivers.

\* C17: the locked part of initialize_accel invokes create_target_codegen
\* exactly when the registry has no entry for the accelerator's target desc
\* or the entry's driver is no longer alive, and on success stores the new
\* driver under that desc; when the entry's driver is alive it gives the
\* accelerator that driver, creates none and leaves the registry as it is.
\* So an accelerator registered while an accelerator of an equal desc holds
\* its driver gets that same driver.
C17_Step ==
    \A t \in Threads :
        rpc[t] = "locked" /\ rpc'[t] = "idle" =>
            LET a == racc[t]
                desc == TargetOf(a)
                cg == translators[desc]
                live == cg # 0 /\ \E b \in Accels : accCg[b] = cg /\ cgHeld[b]
            IN
            /\ (creates' = creates + 1) <=> ~live
            /\ creates' \in {creates, creates + 1}
            /\ ~live /\ rret'[t] = "Ok" =>
                  /\ drivers' = drivers + 1
                  /\ translators'[desc] = drivers'
                  /\ accCg'[a] = drivers'
            /\ ~live /\ rret'[t] = "Err" => translators' = translators /\ drivers' = drivers
            /\ live =>
                  /\ rret'[t] = "Ok"
                  /\ accCg'[a] = cg
                  /\ translators' = translators
                  /\ drivers' = drivers
            /\ \A b \in Accels :
                  TargetOf(b) = desc /\ b # a /\ cgHeld[b] => accCg'[a] = accCg[b]
C17_RegistrySharing == [][C17_Step]_vars

\* C17's case: two accelerators of equal target descs are registered and
\* share the one driver created for them; the first still holds it.
C17_Witness ==
    /\ {"a1", "a2"} \subseteq regOk
    /\ accCg["a1"] # 0
    /\ accCg["a1"] = accCg["a2"]
    /\ cgHeld["a1"]
    /\ creates = 1

----------------------------------------------------------------------------
\* Properties of the metadata loader.

\* C18: context_metadata() succeeds at most once; once the metadata is
\* loaded no step invokes context_metadata() or changes the metadata, and
\* every call that returned Ok returned the metadata stored, also a call
\* that passed the first check before the load completed.
C18_State ==
    /\ msucc <= 1
    /\ \A t \in Threads : mret[t] > 0 => metadata # 0 /\ mret[t] = metadata
C18_Step == metadata # 0 => metadata' = metadata /\ mloads' = mloads /\ msucc' = msucc
C18_LoadOnce == [](C18_State) /\ [][C18_Step]_vars

\* C18's case: two threads found the metadata unloaded; one has loaded it
\* and returned, the other, which waited for the write lock meanwhile, now
\* holds it and finds the metadata loaded.
C18_Witness ==
    \E t, u \in Threads :
        /\ t # u
        /\ mloads = 1
        /\ metadata = 1
        /\ mpc[t] = "idle" /\ mret[t] = 1
        /\ mpc[u] = "locked"

\* C19: a step in which context_metadata() fails returns Err, leaves the
\* metadata unloaded and the lock free; a call that holds the write lock on
\* unloaded metadata invokes context_metadata(), whatever failed before.
C19_Step ==
    \A t \in Threads :
        /\ (mpc[t] = "locked" /\ mfails' # mfails =>
              /\ mret'[t] = -2
              /\ mpc'[t] = "idle"
              /\ metadata = 0
              /\ metadata' = 0
              /\ metaWriter' = "none"
              /\ metaGuards' = metaGuards)
        /\ (mpc[t] = "locked" /\ mpc'[t] # mpc[t] /\ metadata = 0 => mloads' = mloads + 1)
C19_Free == (\A t \in Threads : mpc[t] # "locked") => metaWriter = "none"
C19_LoadFailureNotCached == [](C19_Free) /\ [][C19_Step]_vars

\* C19's case: a load failed, and a later call loaded the metadata.
C19_Witness ==
    /\ mfails >= 1
    /\ metadata # 0
    /\ \E t \in Threads : mpc[t] = "idle" /\ mret[t] = metadata

----------------------------------------------------------------------------
\* Properties of Context handles.

\* C20: two Context handles compare equal exactly when they refer to the
\* same ContextData instance, whatever the instances contain: so it is for
\* every two handles that exist and for the last comparison made; a handle
\* made by clone or by WeakContext::upgrade equals every handle to the
\* instance it was made from.
C20_State ==
    /\ \A lhs, rhs \in Hs :
          hInst[lhs] # 0 /\ hInst[rhs] # 0 => (eq(lhs, rhs) <=> hInst[lhs] = hInst[rhs])
    /\ lastEq[3] <=> (lastEq[1] = lastEq[2])
C20_Step ==
    \A h \in Hs :
        hInst[h] = 0 /\ hInst'[h] # 0 /\ cInsts' = cInsts =>
            \A g \in Hs :
                /\ hInst[g] = hInst'[h] => cAddr'[hInst'[g]] = cAddr'[hInst'[h]]
                /\ hInst[g] # 0 /\ hInst[g] # hInst'[h] => cAddr'[hInst'[g]] # cAddr'[hInst'[h]]
C20_EqIsIdentity == [](C20_State) /\ [][C20_Step]_vars

\* C20's case: a handle and its clone, and a handle to a separately created
\* Context of the same content, which was compared with the first: unequal.
C20_Witness ==
    \E h, g, k \in Hs :
        /\ h # g
        /\ hInst[h] # 0
        /\ hInst[g] = hInst[h]
        /\ hInst[k] # 0
        /\ hInst[k] # hInst[h]
        /\ cNext[hInst[k]] = cNext[hInst[h]]
        /\ lastEq = <<hInst[h], hInst[k], FALSE>>

----------------------------------------------------------------------------
\* Further properties of the cell.

\* C21: a non-empty cell holds the address of a ModuleData that is
\* allocated, and the strong count of that ModuleData is at least one (the
\* cell's unit) more than the handles to it that callers hold.
C21_CellNeverDangles ==
    cell # 0 =>
        /\ Occupant(cell) # 0
        /\ strong[Occupant(cell)] >= 1 + Handles(Occupant(cell))

\* C21's case: the cell holds a ModuleData that a caller holds a handle to,
\* after a drop and a later get_cache_data.
C21_Witness ==
    \E t \in Threads :
        /\ cell # 0
        /\ Occupant(cell) # 0
        /\ held[t][Occupant(cell)] > 0
        /\ allocated >= 2
        /\ \E u \in Threads : Returned(u, "get_cache_data")

\* C22: (no other thread ever called) no step of a call of upgrade changes
\* the cell; the clone takes one unit of the ModuleData the cell holds, the
\* check keeps it when it returns the ModuleData and gives it back when it
\* returns None; so after the call the ModuleData has one unit for the cell
\* and one for every handle held, the returned one included.
C22_Step ==
    \A t \in Threads :
        Alone(t) /\ op'[t] = "upgrade" /\ (pc'[t] # pc[t] \/ calls'[t] # calls[t]) =>
            /\ cell' = cell
            /\ pc[t] = "idle" => strong' = strong
            /\ pc[t] = "clone" =>
                  strong' = [strong EXCEPT ![Occupant(cell)] = @ + 1]
            /\ pc[t] = "check" /\ pc'[t] = "idle" /\ ret'[t] > 0 =>
                  /\ strong' = strong
                  /\ cell = addr[ret'[t]]
                  /\ held'[t] = [held[t] EXCEPT ![ret'[t]] = @ + 1]
            /\ pc[t] = "check" /\ pc'[t] = "idle" /\ ret'[t] = 0 =>
                  /\ strong' = [strong EXCEPT ![Occupant(cell)] = @ - 1]
                  /\ held' = held
C22_State ==
    \A t \in Threads :
        Alone(t) /\ Returned(t, "upgrade") =>
            \A o \in Objs :
                IsLive(o) => strong[o] = Handles(o) + (IF cell = addr[o] THEN 1 ELSE 0)
C22_UpgradeKeepsUnit == [](C22_State) /\ [][C22_Step]_vars

\* C22's case: a thread alone filled the cell and then called upgrade, which
\* returned the ModuleData: two handles and the cell, three units.
C22_Witness ==
    \E t \in Threads : \E o \in Objs :
        /\ Alone(t)
        /\ Returned(t, "upgrade")
        /\ ret[t] = o
        /\ cell = addr[o]
        /\ held[t][o] = 2
        /\ strong[o] = 3

----------------------------------------------------------------------------
\* Properties of the locking in ModuleData::compile.

\* Thread t is on compile's slow path, between taking the upgradable lock
\* and returning.
SlowPath(t) == cpc[t] \in {"codegen", "upgrade", "load_kernel"}

\* C23: on one ModuleData at most one thread at a time is between taking
\* the upgradable lock and returning from compile, whatever accelerators
\* the calls are for, and that thread is the one that holds the lock.
C23_SlowPathExclusive ==
    /\ \A t, u \in Threads : SlowPath(t) /\ SlowPath(u) => t = u
    /\ \A t \in Threads : SlowPath(t) => elock[2] = t

\* C23's case: one thread runs code generation for one accelerator while
\* another, compiling for a different accelerator, waits for the lock.
C23_Witness ==
    \E t, u \in Threads :
        /\ cpc[t] = "codegen"
        /\ cpc[u] = "upgradable_read"
        /\ cacc[t] # cacc[u]

\* C24: while a thread runs code generation under the upgradable lock,
\* another thread's get (or compile's fast path) is granted the read lock
\* and finishes its look at the slot without waiting, and a look at a slot
\* populated with a module of its type yields that module.
C24_State ==
    \A t, u \in Threads :
        cpc[t] = "codegen" /\ t # u =>
            /\ (cpc[u] = "read" => ENABLED get_read(u))
            /\ (cpc[u] = "get" => ENABLED get_body(u))
C24_Step ==
    \A u \in Threads :
        /\ cpc[u] = "get"
        /\ cpc'[u] # cpc[u]
        /\ entries[1][cacc[u]] # 0
        /\ ~SlotMismatch(u)
        =>
            /\ cpc'[u] = "idle"
            /\ cret'[u] = entries[1][cacc[u]]
C24_ReadsNotBlocked == [](C24_State) /\ [][C24_Step]_vars

\* C24's case: a thread runs code generation, and another thread holds a
\* read guard that it was granted under the first one's upgradable lock, on
\* a slot populated with a module of its type.
C24_Witness ==
    \E t, u \in Threads :
        /\ t # u
        /\ cpc[t] = "codegen"
        /\ cpc[u] = "get"
        /\ cseen[u] = "upgradable"
        /\ entries[1][cacc[u]] # 0
        /\ ~SlotMismatch(u)

\* C25: no collaborator operation of the slow path (code generation,
\* loading the device module) is pending or running while the exclusive
\* lock is held.
C25_NoCollaboratorUnderWrite ==
    \A t \in Threads : elock[1] = "write" => cpc[t] \notin {"codegen", "load_kernel"}

\* C26: every call of get or compile that has started comes to its end.
C26_CompileTerminates ==
    \A t \in Threads : (cpc[t] \notin {"idle", "panicked"}) ~> (cpc[t] \in {"idle", "panicked"})

\* C26's case: a thread waits to upgrade its lock while another holds a
\* read guard, after an earlier call has returned.
C26_Witness ==
    \E t, u \in Threads :
        /\ cpc[t] = "upgrade"
        /\ cpc[u] = "get"
        /\ cret[u] = -1
        /\ ccalls >= 3
        /\ loads + cfails >= 1

----------------------------------------------------------------------------
\* Properties of get_cache_data's replacement of the cell's value.

\* Thread t's step is the compare_exchange of line 482 and it replaces the
\* cell's value.
Replaces(t) == pc[t] = "cas2" /\ pc'[t] # pc[t] /\ cell' # cell

\* Thread t's step is the failing assertion of line 420.
AssertFails(t) ==
    /\ pc[t] = "check"
    /\ pc'[t] = "panicked"
    /\ upgrade_check(arc[t], arg[t]) = "Panic"

\* C27: get_cache_data replaces the cell's value only when the ModuleData
\* the cell holds belongs to a destroyed Context; a call that finds there
\* the ModuleData of another, live Context panics, leaving the cell as it
\* is and giving back the one unit its look at that ModuleData took.
C27_ReplaceStep ==
    \A t \in Threads :
        Replaces(t) =>
            LET o == Occupant(cell) IN o # 0 => ~WeakUpgrade(ctxt[o])
C27_PanicStep ==
    \A t \in Threads :
        AssertFails(t) =>
            /\ cell' = cell
            /\ strong'[arc[t]] = strong[arc[t]] - 1
C27_Step == C27_ReplaceStep /\ C27_PanicStep
C27_LiveNeverRemoved == [][C27_Step]_vars

----------------------------------------------------------------------------
\* Properties of the accelerator table.

\* The accelerators in the table and those a query returned.
InTable == {accelerators[i] : i \in 1..Len(accelerators)} \ {"None"}
QueryReturned == {qret[i] : i \in 1..Len(qret)}
\* The accelerators whose initialize_accel returned an error.
Failed ==
    {a \in called : a \notin regOk /\ \A t \in Threads : rpc[t] = "idle" \/ racc[t] # a}

\* C28: the step in which create_target_codegen fails returns the error and
\* leaves the accelerator table, the registry and the accelerators' drivers
\* as they were, with the write lock released; an accelerator whose
\* registration failed is not in the table and no query returns it.
C28_Step ==
    \A t \in Threads :
        rpc[t] = "locked" /\ rpc'[t] = "idle" /\ creates' # creates /\ drivers' = drivers =>
            /\ rret'[t] = "Err"
            /\ accelerators' = accelerators
            /\ translators' = translators
            /\ accCg' = accCg
            /\ mlock' = "none"
C28_State == \A a \in Failed : a \notin InTable /\ a \notin QueryReturned
C28_FailedRegistration == [](C28_State) /\ [][C28_Step]_vars

\* C28's case: the registration of a1 failed; a2, of the same target desc,
\* was registered afterwards and still holds the driver created for it, and
\* a later filter_accels with a predicate true of both returned a2 alone.
C28_Witness ==
    /\ "a1" \in Failed
    /\ regOk = {"a2"}
    /\ cgHeld["a2"]
    /\ creates = 2
    /\ qop = "filter"
    /\ {"a1", "a2"} \subseteq qpred
    /\ qret = <<"a2">>
    /\ mlock = "none"

\* The accelerators in the order of their ids.
ById == [i \in 1..Cardinality(Accels) |-> CHOOSE a \in Accels : IdOf(a) = i - 1]

\* C29: a successful registration puts the accelerator into the slot of its
\* id, the table reaching at least that far, and leaves every other slot as
\* it was; filter_accels returns the registered accelerators that satisfy
\* the predicate, in the order of their ids, and find_accel the one of them
\* with the lowest id, or none; a query returns registered accelerators only.
C29_Step ==
    /\ \A t \in Threads :
          rpc[t] = "locked" /\ rret'[t] = "Ok" =>
              LET i == IdOf(racc[t]) + 1 IN
              /\ Len(accelerators') >= i
              /\ Len(accelerators') >= Len(accelerators)
              /\ accelerators'[i] = racc[t]
              /\ \A j \in 1..Len(accelerators') :
                    j # i => accelerators'[j] = IF j <= Len(accelerators) THEN accelerators[j]
                                                ELSE "None"
    /\ <<qop, qpred, qret>>' # <<qop, qpred, qret>> =>
          LET hits == regOk \cap qpred' IN
          /\ qop' = "filter" => qret' = SelectSeq(ById, LAMBDA a : a \in hits)
          /\ qop' = "find" =>
                qret' = IF hits = {} THEN <<>>
                        ELSE <<CHOOSE a \in hits : \A b \in hits : IdOf(a) <= IdOf(b)>>
C29_State == QueryReturned \subseteq regOk
C29_TableQueries == [](C29_State) /\ [][C29_Step]_vars

\* C29's case: a3 and a1 are registered, a3 first, and a2's registration
\* waits for the lock: the table has an empty slot between them, and a
\* filter_accels with a predicate true of all returned a1 and a3 in this order.
C29_Witness ==
    /\ accelerators = <<"a1", "None", "a3">>
    /\ \E t \in Threads : rpc[t] = "write" /\ racc[t] = "a2"
    /\ qop = "filter"
    /\ qpred = Accels
    /\ qret = <<"a1", "a3">>

----------------------------------------------------------------------------
\* Properties of WeakContext.

\* The ContextData of instance i has been destroyed: it was created and no
\* strong handle to it is left.
Destroyed(i) == i \in 1..cInsts /\ StrongCount(i) = 0

\* C30: WeakContext::upgrade returns a Context exactly when a strong handle
\* to the ContextData exists at that moment: a step in which it returns None
\* finds none, and a handle to an existing ContextData only ever appears
\* while another one exists, so a destroyed ContextData stays destroyed.  A
\* WeakContext, be it a caller's or a ModuleData's, stops no strong handle
\* from being dropped.
C30_Step ==
    /\ lastNone' /\ ~lastNone =>
          \E w \in Ws : wInst[w] # 0 /\ Destroyed(wInst[w]) /\ hInst' = hInst
    /\ lastNone /\ ~lastNone' /\ wInst' = wInst =>
          \E w \in Ws, h \in Hs :
              wInst[w] # 0 /\ StrongCount(wInst[w]) > 0 /\ hInst[h] = 0 /\ hInst'[h] = wInst[w]
    /\ \A h \in Hs :
          hInst[h] = 0 /\ hInst'[h] # 0 /\ cInsts' = cInsts => StrongCount(hInst'[h]) > 0
C30_State ==
    \A h \in Hs, w \in Ws :
        hInst[h] # 0 /\ wInst[w] = hInst[h] /\ StrongCount(hInst[h]) = 1 =>
            ENABLED ContextDrop(h)
C30_WeakDoesNotKeepAlive == [](C30_State) /\ [][C30_Step]_vars

\* C30's case: a WeakContext is still held, all strong handles to its
\* ContextData were dropped, and the upgrade that followed returned None.
C30_Witness ==
    \E w \in Ws :
        /\ wInst[w] # 0
        /\ Destroyed(wInst[w])
        /\ lastNone
        /\ newCalls = 1

====
